---- MODULE Spec2Model ----
(***************************************************************************)
(* A model of the shaker plugin of @linaria/shaker (src/unnamed/part_000) *)
(* and of AtomicStyledProcessor (src/packages/atomic/.../styled.ts).      *)
(*                                                                         *)
(* The plugin's Program.enter handler is modelled phase by phase over an  *)
(* abstract module: a sequence of top-level statements (the tree) and a   *)
(* map from binding names to their ordered reference sites (the reference *)
(* graph).  The tree primitives of @linaria/utils that the plugin calls   *)
(* (collectExportsAndImports, findActionForNode, applyAction,             *)
(* removeWithRelated, reference, dereference, isRemoved) are not part of  *)
(* the source files at hand; they are modelled from spec.md.              *)
(***************************************************************************)
EXTENDS Integers, Sequences, FiniteSets, TLC

(* ------------------------------ bounds ------------------------------- *)

\* Most internal reads `exports.b` the module holds besides the assignment.
MaxRefs == 2
\* Most names in one request (onlyExports).
MaxRequest == 2
\* How many times the pass is run on the same module (re-shaking).
MaxRuns == 2
\* Most full passes of the elimination loop a run of the model follows.
MaxPasses == 6
\* Most rules atomize returns for one css text.
MaxRules == 2

(* --------------------------- the module ------------------------------ *)
(* Statements are <<kind, name>>, nodes (NodePaths) are <<tag, name, i>>. *)
(* The module family, in source form:                                     *)
(*   imp   import { foo as bar } from 'dep'   (bound / unbound local)     *)
(*   side  import 'keep' | import 'drop'                                  *)
(*   es    exports.__esModule = true                                      *)
(*   g     const g = bar                                                  *)
(*   foo   const foo = 1                                                  *)
(*   xy    export const { x, y } = compute()                              *)
(*   a     exports.a = f(..)   reading x, g, exports.b as the shape says  *)
(*   b     exports.b = compute()  |  exports.b = foo                      *)
(*   c     exports.c = g          |  exports.c = (g = 1)                  *)
(*   d     exports.d = g             (written before or after c)          *)
(*   def   exports.default = {}                                           *)
(*   pre   export const __linariaPreval = {}                              *)
(*   re    export { q } from 're' | export * from 'util'                  *)
(***************************************************************************)

VARIABLES
  mod,                  \* the shape of the module under the pass (an input)
  opts,                 \* the plugin options (IShakerOptions)
  pc,                   \* position inside Program.enter / post
  run,                  \* 1 for the first pass over the module, 2 for a re-shake, ...
  body,                 \* Program.body: the top-level statements present, in order
  rewritten,            \* export names whose `exports.name` sites were replaced by a uid
  bindings,             \* root scope: binding name -> Binding.referencePaths
  violations,           \* root scope: registered constant violations (write sites)
  collected,            \* result of collectExportsAndImports
  exports,              \* the rearranged export entries (name -> node, ordered)
  onlyExportsSet,       \* the request as the handler narrows it
  importedAsSideEffect, \* 'side-effect' was requested
  aliveExports,         \* the alive set (NodePaths)
  forDeleting,          \* the deletion worklist (ordered, may repeat a node)
  deleted,              \* worklist nodes marked deleted
  dereferenced,         \* identifiers whose edge was severed (ordered, may repeat)
  changed,              \* the loop's progress flag
  passes,               \* full passes of the elimination loop so far
  path,                 \* how the handler ended: fast | interop | skip | error | wildcard | shaken
  out,                  \* this.imports / this.exports / this.reexports / this.deadExports
  error,                \* the message of the thrown Error (the names it lists)
  metadata,             \* file.metadata.linariaEvaluator
  body0,                \* Program.body when the current pass was entered
  bindings0,            \* the reference graph when the current pass was entered
  collected0,           \* what the first pass collected from the untouched module
  graphAtLoop,          \* the reference graph when the elimination loop was entered
  processor             \* an AtomicStyledProcessor: #classes, className, what its methods returned

vars == <<mod, opts, pc, run, body, rewritten, bindings, violations, collected,
          exports, onlyExportsSet, importedAsSideEffect, aliveExports,
          forDeleting, deleted, dereferenced, changed, passes, path, out,
          error, metadata, body0, bindings0, collected0, graphAtLoop, processor>>

(* ----------------------------- helpers ------------------------------- *)

RECURSIVE SeqToSet(_)
SeqToSet(s) == IF s = <<>> THEN {} ELSE {Head(s)} \cup SeqToSet(Tail(s))

RECURSIVE Flatten(_)
Flatten(ss) == IF ss = <<>> THEN <<>> ELSE Head(ss) \o Flatten(Tail(ss))

Contains(s, e) == \E i \in 1..Len(s) : s[i] = e

Without(s, e) == SelectSeq(s, LAMBDA z : z # e)

NoBinding == ""

(* ------------------------- static node tables ------------------------ *)

\* The top-level statement a node lies in.
StmtOf(n) ==
  CASE n[1] = "loc" ->
         (CASE n[2] = "*" -> <<"src", "re">>
            [] n[2] = "default" -> <<"src", "def">>
            [] n[2] = "__linariaPreval" -> <<"src", "pre">>
            [] OTHER -> <<"src", n[2]>>)
    [] n[1] = "w" -> <<"src", n[2]>>
    [] n[1] = "read" -> <<"src", "a">>
    [] n[1] = "left" -> <<"src", n[2]>>
    [] n[1] = "tail" -> <<"tail", n[2]>>
    [] n[1] = "tailw" -> <<"tail", n[2]>>
    [] n[1] = "site" ->
         (CASE n[2] = "a_x" -> <<"src", "a">>
            [] n[2] = "a_g" -> <<"src", "a">>
            [] n[2] = "g_bar" -> <<"src", "g">>)
    [] n[1] = "exp" -> <<"src", n[2]>>
    [] n[1] = "imp" -> <<"src", "imp">>
    [] n[1] = "side" -> <<"src", "side">>
    [] n[1] = "re" -> <<"src", "re">>

\* The identifier Scope.generateUid returns for an export name: fresh in the module.
Uid(name) == CASE name = "a" -> "_a" [] name = "b" -> "_b" [] name = "c" -> "_c"
               [] name = "d" -> "_d"
               [] name = "default" -> "_default" [] OTHER -> "_uid"

\* The syntactic kind of a node: Identifier | Assignment | DeclInit | Expr.
Kind(m, n) ==
  CASE n[1] = "loc" /\ n[2] = "b" -> IF m.b = "alias" THEN "Identifier" ELSE "Expr"
    [] n[1] = "loc" /\ n[2] = "c" -> IF m.c = "assign" THEN "Assignment" ELSE "Identifier"
    [] n[1] = "loc" /\ n[2] = "d" -> "Identifier"
    [] n[1] = "loc" /\ n[2] = "__linariaPreval" -> "DeclInit"
    [] n[1] = "tail" -> "Identifier"
    [] n[1] = "site" -> "Identifier"
    [] n[1] = "left" -> "Identifier"
    [] n[1] = "imp" -> IF m.imp = "bound" THEN "Identifier" ELSE "Expr"
    [] OTHER -> "Expr"

\* node.name of an Identifier node; "" for every other node.
NodeName(m, n) ==
  CASE n[1] = "loc" /\ n[2] = "b" -> IF m.b = "alias" THEN "foo" ELSE ""
    [] n[1] = "loc" /\ n[2] = "c" -> IF m.c = "assign" THEN "" ELSE "g"
    [] n[1] = "loc" /\ n[2] = "d" -> "g"
    [] n[1] = "tail" -> Uid(n[2])
    [] n[1] = "site" /\ n[2] = "a_x" -> "x"
    [] n[1] = "site" /\ n[2] = "a_g" -> "g"
    [] n[1] = "site" /\ n[2] = "g_bar" -> "bar"
    [] n[1] = "left" -> "g"
    [] n[1] = "imp" -> IF m.imp = "bound" THEN "bar" ELSE ""
    [] OTHER -> ""

\* The id of the enclosing VariableDeclarator when it is an Identifier, the left
\* side of an AssignmentExpression node when it is an Identifier; "" otherwise.
DeclaratorId(m, n) ==
  IF n[1] = "loc" /\ n[2] = "__linariaPreval" THEN "__linariaPreval" ELSE ""

AssignmentLeft(m, n) ==
  IF n[1] = "loc" /\ n[2] = "c" /\ m.c = "assign" THEN "g" ELSE ""

\* The bindings a statement declares.
Declares(s) ==
  CASE s = <<"src", "imp">> -> {"bar"}
    [] s = <<"src", "g">> -> {"g"}
    [] s = <<"src", "foo">> -> {"foo"}
    [] s = <<"src", "xy">> -> {"x", "y"}
    [] s = <<"src", "pre">> -> {"__linariaPreval"}
    [] s[1] = "uid" -> {Uid(s[2])}
    [] OTHER -> {}

\* The statement that declares a binding.
DeclaredBy(name) ==
  CASE name = "bar" -> <<"src", "imp">>
    [] name = "g" -> <<"src", "g">>
    [] name = "foo" -> <<"src", "foo">>
    [] name = "x" -> <<"src", "xy">>
    [] name = "y" -> <<"src", "xy">>
    [] name = "__linariaPreval" -> <<"src", "pre">>
    [] name = "_a" -> <<"uid", "a">>
    [] name = "_b" -> <<"uid", "b">>
    [] name = "_c" -> <<"uid", "c">>
    [] name = "_d" -> <<"uid", "d">>
    [] name = "_default" -> <<"uid", "default">>
    [] OTHER -> <<"uid", "">>

(* --------------------- the parsing/analysis layer -------------------- *)

\* Program.body of the module of shape m, as first parsed.
InitialBody(m) ==
  Flatten(<<
    IF m.imp # "none" THEN << <<"src", "imp">> >> ELSE <<>>,
    IF m.side # "none" THEN << <<"src", "side">> >> ELSE <<>>,
    IF m.isEs THEN << <<"src", "es">> >> ELSE <<>>,
    IF m.c # "none" \/ m.d # "none" \/ m.aReadsG THEN << <<"src", "g">> >> ELSE <<>>,
    IF m.b = "alias" THEN << <<"src", "foo">> >> ELSE <<>>,
    IF m.xy # "none" THEN << <<"src", "xy">> >> ELSE <<>>,
    << <<"src", "a">> >>,
    IF m.b # "none" THEN << <<"src", "b">> >> ELSE <<>>,
    IF m.d = "before" THEN << <<"src", "d">> >> ELSE <<>>,
    IF m.c # "none" THEN << <<"src", "c">> >> ELSE <<>>,
    IF m.d = "after" THEN << <<"src", "d">> >> ELSE <<>>,
    IF m.hasDefault THEN << <<"src", "def">> >> ELSE <<>>,
    IF m.pre THEN << <<"src", "pre">> >> ELSE <<>>,
    IF m.re # "none" THEN << <<"src", "re">> >> ELSE <<>>
  >>)

\* The internal reads of exports.b, all of them inside statement a.
ReadSites(m) == [i \in 1..m.nRefs |-> <<"read", "b", i>>]

\* Every reference site of binding `name` in the module, in source order: the
\* identifiers that read it and, for an exported declaration, the export itself.
\* rw: the export names whose `exports.name` sites now read the uid.
SitesOf(m, rw, name) ==
  CASE name = "bar" -> IF m.imp = "bound" THEN << <<"site", "g_bar", 0>> >> ELSE <<>>
    [] name = "g" ->
         (IF m.aReadsG THEN << <<"site", "a_g", 0>> >> ELSE <<>>)
         \o (IF m.d = "before" THEN << <<"loc", "d", 0>> >> ELSE <<>>)
         \o (IF m.c = "ident" THEN << <<"loc", "c", 0>> >> ELSE <<>>)
         \o (IF m.d = "after" THEN << <<"loc", "d", 0>> >> ELSE <<>>)
    [] name = "foo" -> IF m.b = "alias" THEN << <<"loc", "b", 0>> >> ELSE <<>>
    [] name = "x" ->
         << <<"exp", "xy", 0>> >>
         \o (IF m.xy = "read" THEN << <<"site", "a_x", 0>> >> ELSE <<>>)
    [] name = "y" -> << <<"exp", "xy", 0>> >>
    [] name = "__linariaPreval" -> << <<"exp", "pre", 0>> >>
    [] name = "_b" -> IF "b" \in rw THEN ReadSites(m) \o << <<"tail", "b", 0>> >> ELSE <<>>
    [] OTHER -> <<>>

\* Scope.crawl: the reference graph of a tree. A binding exists for every name a
\* present statement declares; its reference sites are those in present statements.
Crawl(m, bd, rw) ==
  LET st == SeqToSet(bd)
      declared == UNION {Declares(s) : s \in st}
      names == IF m.imp = "bound" THEN declared ELSE declared \ {"bar"}
  IN [name \in names |->
        SelectSeq(SitesOf(m, rw, name), LAMBDA site : StmtOf(site) \in st)]

\* The write sites the scope holds as constant violations.
CrawlViolations(bd, rw) ==
  {<<"w", name, 0>> : name \in {n \in rw : <<"src", n>> \in SeqToSet(bd)}}

(* ----------------------- collectExportsAndImports -------------------- *)

\* The export entries a statement defines: name -> node.
ExportsOfStmt(m, rw, s) ==
  CASE s = <<"src", "a">> /\ "a" \notin rw -> << [name |-> "a", local |-> <<"loc", "a", 0>>] >>
    [] s = <<"src", "b">> /\ "b" \notin rw -> << [name |-> "b", local |-> <<"loc", "b", 0>>] >>
    [] s = <<"src", "c">> /\ "c" \notin rw -> << [name |-> "c", local |-> <<"loc", "c", 0>>] >>
    [] s = <<"src", "d">> /\ "d" \notin rw -> << [name |-> "d", local |-> <<"loc", "d", 0>>] >>
    [] s = <<"src", "def">> /\ "default" \notin rw ->
         << [name |-> "default", local |-> <<"loc", "default", 0>>] >>
    [] s = <<"src", "pre">> ->
         << [name |-> "__linariaPreval", local |-> <<"loc", "__linariaPreval", 0>>] >>
    [] s = <<"src", "xy">> ->
         << [name |-> "x", local |-> <<"loc", "xy", 0>>],
            [name |-> "y", local |-> <<"loc", "xy", 0>>] >>
    [] s = <<"src", "re">> /\ m.re = "starExport" ->
         << [name |-> "*", local |-> <<"loc", "*", 0>>] >>
    [] s[1] = "tail" -> << [name |-> s[2], local |-> <<"tail", s[2], 0>>] >>
    [] OTHER -> <<>>

ImportsOfStmt(m, s) ==
  CASE s = <<"src", "imp">> ->
         << [imported |-> "foo", source |-> "dep", local |-> <<"imp", "bar", 0>>] >>
    [] s = <<"src", "side">> ->
         << [imported |-> "side-effect", source |-> m.side, local |-> <<"side", "", 0>>] >>
    [] OTHER -> <<>>

ReexportsOfStmt(m, s) ==
  CASE s = <<"src", "re">> /\ m.re = "named" ->
         << [exported |-> "q", imported |-> "q", source |-> "re", local |-> <<"re", "q", 0>>] >>
    [] s = <<"src", "re">> /\ m.re = "star" ->
         << [exported |-> "*", imported |-> "*", source |-> "util", local |-> <<"re", "*", 0>>] >>
    [] OTHER -> <<>>

\* The `exports.name` member expressions of the tree: the assignment's own, then
\* the reads. After the rewrite only the appended assignment is left.
ExportRefsOf(m, bd, rw, name) ==
  LET st == SeqToSet(bd) IN
  IF name \in rw
  THEN (IF <<"tail", name>> \in st THEN << <<"tailw", name, 0>> >> ELSE <<>>)
  ELSE << <<"w", name, 0>> >>
       \o (IF name = "b" /\ <<"src", "a">> \in st THEN ReadSites(m) ELSE <<>>)

\* Exports written as `exports.name = value`; the others are ES declarations.
IsCommonJsName(name) == name \in {"a", "b", "c", "d", "default"}

collectExportsAndImports(m, bd, rw) ==
  LET ex == Flatten([i \in 1..Len(bd) |-> ExportsOfStmt(m, rw, bd[i])])
      names == {ex[i].name : i \in 1..Len(ex)}
  IN [exports |-> ex,
      exportRefs |-> [name \in {n \in names : IsCommonJsName(n)} |->
                        ExportRefsOf(m, bd, rw, name)],
      imports |-> Flatten([i \in 1..Len(bd) |-> ImportsOfStmt(m, bd[i])]),
      reexports |-> Flatten([i \in 1..Len(bd) |-> ReexportsOfStmt(m, bd[i])]),
      isEsModule |-> <<"src", "es">> \in SeqToSet(bd)]

\* Object.keys / Object.values / lookup on an ordered name -> node map.
Keys(ex) == [i \in 1..Len(ex) |-> ex[i].name]
Values(ex) == [i \in 1..Len(ex) |-> ex[i].local]
Has(ex, name) == \E i \in 1..Len(ex) : ex[i].name = name
Lookup(ex, name) == ex[CHOOSE i \in 1..Len(ex) : ex[i].name = name].local

(* --------------------------- tree primitives ------------------------- *)

\* isRemoved: the node's statement is no longer in the tree.
isRemoved(bd, n) == StmtOf(n) \notin SeqToSet(bd)

\* The binding an identifier resolves to in the root scope, by name.
getBinding(bs, name) == IF name # "" /\ name \in DOMAIN bs THEN name ELSE NoBinding

\* reference(path): add the identifier to its binding's reference sites, once.
reference(m, bs, n) ==
  LET b == getBinding(bs, NodeName(m, n)) IN
  IF b = NoBinding \/ Contains(bs[b], n) THEN bs
  ELSE [bs EXCEPT ![b] = Append(@, n)]

\* dereference(path): take the identifier out of its binding's reference sites.
dereference(m, bs, n) ==
  LET b == getBinding(bs, NodeName(m, n)) IN
  IF b = NoBinding THEN bs ELSE [bs EXCEPT ![b] = Without(@, n)]

\* findActionForNode: the statement to remove with the node; none once removed.
NoAction == <<"none", "">>
findActionForNode(bd, n) == IF isRemoved(bd, n) THEN NoAction ELSE StmtOf(n)

\* Removing statements: every reference site inside them leaves the graph, and
\* a declaration all of whose bindings lost their last reference that way goes too.
RECURSIVE RemoveStatements(_, _)
RemoveStatements(t, ss) ==
  IF ss = {} THEN t
  ELSE
    LET gone == ss \cap SeqToSet(t.body)
        touched == {b \in DOMAIN t.bindings :
                      \E i \in 1..Len(t.bindings[b]) : StmtOf(t.bindings[b][i]) \in gone}
        bs == [b \in DOMAIN t.bindings |->
                 SelectSeq(t.bindings[b], LAMBDA site : StmtOf(site) \notin gone)]
        bd == SelectSeq(t.body, LAMBDA s : s \notin gone)
        dead == {b \in touched : bs[b] = <<>>}
        dangling == {s \in SeqToSet(bd) :
                       /\ Declares(s) \cap dead # {}
                       /\ \A d \in Declares(s) : d \notin DOMAIN bs \/ bs[d] = <<>>}
    IN RemoveStatements([body |-> bd, bindings |-> bs], dangling)

\* applyAction(['remove', statement]).
applyAction(t, action) == RemoveStatements(t, {action})

\* removeWithRelated([path]): finds the node's action itself; nothing to do for
\* a node that is already out of the tree.
removeWithRelated(t, n) ==
  IF findActionForNode(t.body, n) = NoAction THEN t
  ELSE RemoveStatements(t, {findActionForNode(t.body, n)})

(* -------------------------- getBindingForExport ---------------------- *)

getBindingForExport(m, bs, n) ==
  IF Kind(m, n) = "Identifier" THEN getBinding(bs, NodeName(m, n))
  ELSE IF DeclaratorId(m, n) # "" THEN getBinding(bs, DeclaratorId(m, n))
  ELSE IF Kind(m, n) = "Assignment" /\ AssignmentLeft(m, n) # ""
       THEN getBinding(bs, AssignmentLeft(m, n))
  ELSE NoBinding

\* withoutRemoved: the records whose local node is still in the tree.
withoutRemoved(bd, items) == SelectSeq(items, LAMBDA it : ~isRemoved(bd, it.local))

(* ----------------------------- rearrangeExports ---------------------- *)

\* A variant of the rewrite below that moves the first write to the bottom
\* instead of leaving its statement in place.
RearrangeOne_MovesWrite(st, name, refs) ==
  LET uid == Uid(name)
      tail == <<"tail", name, 0>>
      reads == SelectSeq(refs, LAMBDA r : r[1] = "read")
      kept == SelectSeq(st.body, LAMBDA s : s # <<"src", name>>)
  IN [body |-> << <<"uid", name>> >> \o kept \o << <<"tail", name>> >>,
      bindings |-> [b \in DOMAIN st.bindings \cup {uid} |->
                      IF b = uid THEN reads \o <<tail>> ELSE st.bindings[b]],
      violations |-> st.violations,
      rewritten |-> st.rewritten \cup {name},
      exports |-> [i \in 1..Len(st.exports) |->
                     IF st.exports[i].name = name
                     THEN [name |-> name, local |-> tail]
                     ELSE st.exports[i]]]

\* One export name with more than one `exports.name` site: declare a uid at the
\* top, make every site use it, append `exports.name = uid`, and let the export
\* entry point at the appended assignment's right side.
RearrangeOne(st, name, refs) ==
  LET uid == Uid(name)
      tail == <<"tail", name, 0>>
      reads == SelectSeq(refs, LAMBDA r : r[1] = "read")
      writes == {refs[i] : i \in {j \in 1..Len(refs) : refs[j][1] # "read"}}
  IN [body |-> << <<"uid", name>> >> \o st.body \o << <<"tail", name>> >>,
      bindings |-> [b \in DOMAIN st.bindings \cup {uid} |->
                      IF b = uid THEN reads \o <<tail>> ELSE st.bindings[b]],
      violations |-> st.violations \cup writes,
      rewritten |-> st.rewritten \cup {name},
      exports |-> [i \in 1..Len(st.exports) |->
                     IF st.exports[i].name = name
                     THEN [name |-> name, local |-> tail]
                     ELSE st.exports[i]]]

RECURSIVE RearrangeFrom(_, _, _)
RearrangeFrom(st, exportRefs, names) ==
  IF names = <<>> THEN st
  ELSE LET name == Head(names) IN
       IF Len(exportRefs[name]) <= 1
       THEN RearrangeFrom(st, exportRefs, Tail(names))
       ELSE RearrangeFrom(RearrangeOne(st, name, exportRefs[name]), exportRefs, Tail(names))

rearrangeExports(st, exportRefs) ==
  RearrangeFrom(st, exportRefs,
                SelectSeq(Keys(st.exports), LAMBDA n : n \in DOMAIN exportRefs))

(* ------------------------------ options ------------------------------ *)

\* The defaults of the plugin's options (destructuring defaults).
ifUnknownExport ==
  IF opts.ifUnknownExport = "unset" THEN "skip-shaking" ELSE opts.ifUnknownExport
keepSideEffects == opts.keepSideEffects = "true"
deadImports == opts.deadImports

\* The predicate that says a side-effect import's source must be kept.
shouldKeepSideEffect(source) == source = "keep"

sideEffectImport(i) == i.imported = "side-effect"

NoOut == [published |-> FALSE, imports |-> <<>>, exports |-> <<>>,
          reexports |-> <<>>, deadExports |-> <<>>]
NoError == [thrown |-> FALSE, names |-> {}]
NoMetadata == [written |-> FALSE, deadExports |-> <<>>, exports |-> <<>>,
               imports |-> <<>>]

(* --------------------------- Program.enter ---------------------------- *)

\* reference(left, left, true) for every collected export that is an
\* AssignmentExpression with an Identifier on the left.
RECURSIVE ReferenceAssignmentLefts(_, _, _)
ReferenceAssignmentLefts(m, bs, ex) ==
  IF ex = <<>> THEN bs
  ELSE LET local == Head(ex).local
           left == <<"left", local[2], 0>>
       IN IF Kind(m, local) = "Assignment" /\ AssignmentLeft(m, local) # ""
          THEN ReferenceAssignmentLefts(m, reference(m, bs, left), Tail(ex))
          ELSE ReferenceAssignmentLefts(m, bs, Tail(ex))

\* Lines 142-184: collect, rearrange the exports, reference assignment lefts.
Enter ==
  /\ pc = "ready"
  /\ LET c == collectExportsAndImports(mod, body, rewritten)
         st == rearrangeExports([body |-> body, bindings |-> bindings,
                                 violations |-> violations, rewritten |-> rewritten,
                                 exports |-> c.exports], c.exportRefs)
     IN /\ collected' = c
        /\ exports' = st.exports
        /\ body' = st.body
        /\ bindings' = ReferenceAssignmentLefts(mod, st.bindings, c.exports)
        /\ violations' = st.violations
        /\ rewritten' = st.rewritten
        /\ collected0' = IF run = 1 THEN c ELSE collected0
  /\ body0' = body
  /\ bindings0' = bindings
  /\ onlyExportsSet' = opts.onlyExports
  /\ pc' = "entered"
  /\ UNCHANGED <<processor, graphAtLoop, mod, opts, run, importedAsSideEffect, aliveExports, forDeleting,
                 deleted, dereferenced, changed, passes, path, out, error, metadata>>

\* A variant that never drops __linariaPreval from the request.
WithoutPreval_KeepsPreval(req, ex) == req

\* The request once __linariaPreval is dropped when it is not exported.
WithoutPreval(req, ex) ==
  IF "__linariaPreval" \in req /\ ~Has(ex, "__linariaPreval")
  THEN req \ {"__linariaPreval"} ELSE req

\* A variant that sees the hazard only when default is all that is requested.
InteropHazard_OnlyDefault(req, ex, isEsModule) ==
  req = {"default"} /\ Has(ex, "default") /\ ~isEsModule

\* The interop hazard: default is requested and exported by a module that is
\* not marked as an ES module.
InteropHazard(req, ex, isEsModule) ==
  "default" \in req /\ Has(ex, "default") /\ ~isEsModule

\* The fast lane's result: nothing survives, every export is dead.
FastLaneOut(ex) ==
  [published |-> TRUE, imports |-> <<>>, exports |-> <<>>, reexports |-> <<>>,
   deadExports |-> Keys(ex)]

\* The result of the paths that keep everything.
KeepAllOut(c, ex) ==
  [published |-> TRUE, imports |-> c.imports, exports |-> ex,
   reexports |-> c.reexports, deadExports |-> <<>>]

\* A variant of the wildcard guard that wants `*` to be the whole request.
HasWildcard_Alone(req) == req = {"*"}

\* Line 227: the wildcard guard.
HasWildcard(req) == "*" \in req

\* Lines 186-227: the fast lane, the side-effect marker, the interop hazard and
\* the wildcard guard.
Decide ==
  /\ pc = "entered"
  /\ LET req == WithoutPreval(onlyExportsSet, exports)
         req2 == req \ {"side-effect"}
     IN IF req = {}
        THEN /\ out' = FastLaneOut(exports)
             /\ body' = <<>>
             /\ onlyExportsSet' = req
             /\ path' = "fast"
             /\ pc' = "returned"
             /\ UNCHANGED importedAsSideEffect
        ELSE /\ importedAsSideEffect' = ("side-effect" \in req)
             /\ onlyExportsSet' = req2
             /\ UNCHANGED body
             /\ IF InteropHazard(req2, exports, collected.isEsModule)
                THEN /\ out' = KeepAllOut(collected, exports)
                     /\ path' = "interop"
                     /\ pc' = "returned"
                ELSE /\ UNCHANGED out
                     /\ path' = IF HasWildcard(req2) THEN "wildcard" ELSE "shaking"
                     /\ pc' = IF HasWildcard(req2) THEN "report" ELSE "alive"
  /\ UNCHANGED <<processor, graphAtLoop, mod, opts, run, rewritten, bindings, violations, collected, exports,
                 aliveExports, forDeleting, deleted, dereferenced, changed, passes,
                 error, metadata, body0, bindings0, collected0>>

(* --------------------------- liveness engine --------------------------- *)

\* A variant that decides per name: a name that is neither requested nor an
\* import-name alias takes its node out of the alive set again.
AliveAfterEntry_PerName(m, req, importNames, alive, e) ==
  IF e.name \in req THEN alive \cup {e.local}
  ELSE IF Contains(importNames, NodeName(m, e.local)) THEN alive \cup {e.local}
  ELSE alive \ {e.local}

\* Lines 233-247: one export entry against the alive set built so far.
AliveAfterEntry(m, req, importNames, alive, e) ==
  IF e.name \in req THEN alive \cup {e.local}
  ELSE IF Contains(importNames, NodeName(m, e.local)) THEN alive \cup {e.local}
  ELSE IF \E al \in alive : al = e.local THEN alive \cup {e.local}
  ELSE alive

RECURSIVE AliveFromExports(_, _, _, _, _)
AliveFromExports(m, req, importNames, alive, ex) ==
  IF ex = <<>> THEN alive
  ELSE AliveFromExports(m, req, importNames,
                        AliveAfterEntry(m, req, importNames, alive, Head(ex)), Tail(ex))

MarkExports ==
  /\ pc = "alive"
  /\ LET importNames == [i \in 1..Len(collected.imports) |-> collected.imports[i].imported]
     IN aliveExports' = AliveFromExports(mod, onlyExportsSet, importNames, {}, exports)
  /\ pc' = "aliveRe"
  /\ UNCHANGED <<processor, graphAtLoop, mod, opts, run, body, rewritten, bindings, violations, collected,
                 exports, onlyExportsSet, importedAsSideEffect, forDeleting, deleted,
                 dereferenced, changed, passes, path, out, error, metadata, body0,
                 bindings0, collected0>>

\* Lines 249-253: a re-export is alive when its exported name is requested.
AliveFromReexports(req, alive, reexports) ==
  alive \cup {reexports[i].local :
                i \in {j \in 1..Len(reexports) : reexports[j].exported \in req}}

MarkReexports ==
  /\ pc = "aliveRe"
  /\ aliveExports' = AliveFromReexports(onlyExportsSet, aliveExports, collected.reexports)
  /\ pc' = "policy"
  /\ UNCHANGED <<processor, graphAtLoop, mod, opts, run, body, rewritten, bindings, violations, collected,
                 exports, onlyExportsSet, importedAsSideEffect, forDeleting, deleted,
                 dereferenced, changed, passes, path, out, error, metadata, body0,
                 bindings0, collected0>>

\* Line 255.
isAllExportsFound(alive, req) == Cardinality(alive) = Cardinality(req)

\* A variant of the reexport-all policy that starts the alive set over from the
\* wildcards.
AliveFromReexportAll_StartsOver(alive, ex, reexports) ==
  (IF Has(ex, "*") THEN {Lookup(ex, "*")} ELSE {})
  \cup {reexports[i].local : i \in {j \in 1..Len(reexports) : reexports[j].exported = "*"}}

\* Lines 263-274: every wildcard export and re-export is kept alive.
AliveFromReexportAll(alive, ex, reexports) ==
  alive
  \cup (IF Has(ex, "*") THEN {Lookup(ex, "*")} ELSE {})
  \cup {reexports[i].local : i \in {j \in 1..Len(reexports) : reexports[j].exported = "*"}}

\* Lines 305-327: the worklist entries of the configured dead imports.
RECURSIVE DeadImportEntries(_, _, _, _)
DeadImportEntries(m, bs, dead, imports) ==
  IF imports = <<>> THEN <<>>
  ELSE LET i == Head(imports)
           rest == DeadImportEntries(m, bs, dead, Tail(imports))
           binding == getBindingForExport(m, bs, i.local)
       IN IF i.imported = "side-effect" THEN rest
          ELSE IF \E k \in 1..Len(dead) :
                    i.imported = dead[k].what /\ i.source = dead[k].from
          THEN (IF binding = NoBinding THEN <<i.local>> ELSE bs[binding]) \o rest
          ELSE rest

\* A variant of the worklist that schedules every side-effect import, the ones
\* whose source the keep predicate accepts too.
BuildForDeleting_DropsKept(m, bs, c, ex, alive, keepSE, asSideEffect, dead) ==
  LET reLocals == [i \in 1..Len(c.reexports) |-> c.reexports[i].local]
      notAlive == SelectSeq(Values(ex) \o reLocals, LAMBDA n : n \notin alive)
      sideEffects == SelectSeq(c.imports, sideEffectImport)
      sideLocals == IF ~keepSE /\ ~asSideEffect
                    THEN [i \in 1..Len(sideEffects) |-> sideEffects[i].local]
                    ELSE <<>>
      deadEntries == IF Len(dead) > 0 THEN DeadImportEntries(m, bs, dead, c.imports)
                     ELSE <<>>
  IN notAlive \o sideLocals \o deadEntries

\* Lines 291-327: the initial deletion worklist.
BuildForDeleting(m, bs, c, ex, alive, keepSE, asSideEffect, dead) ==
  LET reLocals == [i \in 1..Len(c.reexports) |-> c.reexports[i].local]
      notAlive == SelectSeq(Values(ex) \o reLocals, LAMBDA n : n \notin alive)
      sideEffects == SelectSeq(c.imports, sideEffectImport)
      droppable == SelectSeq(sideEffects, LAMBDA i : ~shouldKeepSideEffect(i.source))
      sideLocals == IF ~keepSE /\ ~asSideEffect
                    THEN [i \in 1..Len(droppable) |-> droppable[i].local]
                    ELSE <<>>
      deadEntries == IF Len(dead) > 0 THEN DeadImportEntries(m, bs, dead, c.imports)
                     ELSE <<>>
  IN notAlive \o sideLocals \o deadEntries

\* Lines 258-260: the names the error message lists, onlyExports.join(',').
UnknownExportMessage(onlyExports, narrowed) == onlyExports

\* Lines 255-327: the unknown-export policy, then the worklist. The module family
\* holds no JSX or browser code, so removeDangerousCode has nothing to strip.
ApplyPolicy ==
  /\ pc = "policy"
  /\ LET found == isAllExportsFound(aliveExports, onlyExportsSet)
         applies == ~found /\ ifUnknownExport # "ignore"
         alive == IF applies /\ ifUnknownExport = "reexport-all"
                  THEN AliveFromReexportAll(aliveExports, exports, collected.reexports)
                  ELSE aliveExports
     IN IF applies /\ ifUnknownExport = "error"
        THEN /\ error' = [thrown |-> TRUE,
                        names |-> UnknownExportMessage(opts.onlyExports, onlyExportsSet)]
             /\ path' = "error"
             /\ pc' = "thrown"
             /\ UNCHANGED <<aliveExports, out, forDeleting, deleted, dereferenced,
                            changed, passes>>
        ELSE IF applies /\ ifUnknownExport = "skip-shaking"
        THEN /\ out' = KeepAllOut(collected, exports)
             /\ path' = "skip"
             /\ pc' = "returned"
             /\ UNCHANGED <<aliveExports, error, forDeleting, deleted, dereferenced,
                            changed, passes>>
        ELSE /\ aliveExports' = alive
             /\ forDeleting' = BuildForDeleting(mod, bindings, collected, exports, alive,
                                                keepSideEffects, importedAsSideEffect,
                                                deadImports)
             /\ deleted' = {}
             /\ dereferenced' = <<>>
             /\ changed' = TRUE
             /\ passes' = 0
             /\ pc' = "loop"
             /\ UNCHANGED <<error, out, path>>
  /\ graphAtLoop' = IF pc' = "loop" THEN bindings ELSE graphAtLoop
  /\ UNCHANGED <<processor, mod, opts, run, body, rewritten, bindings, violations, collected,
                 exports, onlyExportsSet, importedAsSideEffect, metadata, body0,
                 bindings0, collected0>>

(* ------------------------- fixed-point eliminator ---------------------- *)

\* The reference sites of the candidate's binding that lie outside the statement
\* its action removes (all of them when there is no action).
outerReferences(m, t, n) ==
  LET binding == getBindingForExport(m, t.bindings, n)
      parent == findActionForNode(t.body, n)
  IN IF binding = NoBinding THEN <<>>
     ELSE SelectSeq(t.bindings[binding],
                    LAMBDA ref : parent = NoAction \/ StmtOf(ref) # parent)

\* A variant of the loop body that counts a severed edge as progress.
Probe_SeverCounts(m, t, n) ==
  LET binding == getBindingForExport(m, t.bindings, n)
      action == findActionForNode(t.body, n)
      outer == outerReferences(m, t, n)
      sever == Len(outer) > 0 /\ Kind(m, n) = "Identifier"
      t1 == [body |-> t.body,
             bindings |-> IF sever THEN dereference(m, t.bindings, n) ELSE t.bindings]
      remove == n \notin t.deleted /\ (binding = NoBinding \/ Len(outer) = 0)
      t2 == IF ~remove THEN t1
            ELSE IF action # NoAction THEN applyAction(t1, action)
            ELSE removeWithRelated(t1, n)
  IN [body |-> t2.body,
      bindings |-> t2.bindings,
      deleted |-> IF remove THEN t.deleted \cup {n} ELSE t.deleted,
      dereferenced |-> IF sever THEN Append(t.dereferenced, n) ELSE t.dereferenced,
      changed |-> t.changed \/ remove \/ sever]

\* Lines 337-361: the loop body for one candidate.
Probe(m, t, n) ==
  LET binding == getBindingForExport(m, t.bindings, n)
      action == findActionForNode(t.body, n)
      outer == outerReferences(m, t, n)
      sever == Len(outer) > 0 /\ Kind(m, n) = "Identifier"
      t1 == [body |-> t.body,
             bindings |-> IF sever THEN dereference(m, t.bindings, n) ELSE t.bindings]
      remove == n \notin t.deleted /\ (binding = NoBinding \/ Len(outer) = 0)
      t2 == IF ~remove THEN t1
            ELSE IF action # NoAction THEN applyAction(t1, action)
            ELSE removeWithRelated(t1, n)
  IN [body |-> t2.body,
      bindings |-> t2.bindings,
      deleted |-> IF remove THEN t.deleted \cup {n} ELSE t.deleted,
      dereferenced |-> IF sever THEN Append(t.dereferenced, n) ELSE t.dereferenced,
      changed |-> t.changed \/ remove]

\* Lines 336-362: one pass of the for loop over the worklist.
RECURSIVE ScanWorklist(_, _, _)
ScanWorklist(m, t, work) ==
  IF work = <<>> THEN t ELSE ScanWorklist(m, Probe(m, t, Head(work)), Tail(work))

\* Lines 329-363: the whole while loop over a worklist, from the tree and graph
\* t with nothing deleted yet (left gives the passes the model still follows).
RECURSIVE LoopFrom(_, _, _, _)
LoopFrom(m, t, work, left) ==
  IF ~(t.changed /\ Cardinality(t.deleted) < Len(work)) \/ left = 0 THEN t
  ELSE LoopFrom(m, ScanWorklist(m, [t EXCEPT !.changed = FALSE], work), work, left - 1)

Eliminate(m, bd, bs, work) ==
  LoopFrom(m, [body |-> bd, bindings |-> bs, deleted |-> {}, dereferenced |-> <<>>,
               changed |-> TRUE], work, MaxPasses)

\* Line 333.
LoopContinues == changed /\ Cardinality(deleted) < Len(forDeleting)

ElimPass ==
  /\ pc = "loop"
  /\ LoopContinues
  /\ passes < MaxPasses
  /\ LET t == ScanWorklist(mod, [body |-> body, bindings |-> bindings,
                                 deleted |-> deleted, dereferenced |-> dereferenced,
                                 changed |-> FALSE], forDeleting)
     IN /\ body' = t.body
        /\ bindings' = t.bindings
        /\ deleted' = t.deleted
        /\ dereferenced' = t.dereferenced
        /\ changed' = t.changed
  /\ passes' = passes + 1
  /\ UNCHANGED <<processor, graphAtLoop, mod, opts, pc, run, rewritten, violations, collected, exports,
                 onlyExportsSet, importedAsSideEffect, aliveExports, forDeleting, path,
                 out, error, metadata, body0, bindings0, collected0>>

\* A variant that references nothing back.
ReferenceBack_Forgets(m, bd, bs, severed) == bs

\* Lines 365-370: reference back every severed identifier that is still alive.
RECURSIVE ReferenceBack(_, _, _, _)
ReferenceBack(m, bd, bs, severed) ==
  IF severed = <<>> THEN bs
  ELSE ReferenceBack(m, bd,
                     IF ~isRemoved(bd, Head(severed)) THEN reference(m, bs, Head(severed))
                     ELSE bs,
                     Tail(severed))

Restore ==
  /\ pc = "loop"
  /\ ~LoopContinues
  /\ bindings' = ReferenceBack(mod, body, bindings, dereferenced)
  /\ path' = "shaken"
  /\ pc' = "report"
  /\ UNCHANGED <<processor, graphAtLoop, mod, opts, run, body, rewritten, violations, collected, exports,
                 onlyExportsSet, importedAsSideEffect, aliveExports, forDeleting,
                 deleted, dereferenced, changed, passes, out, error, metadata, body0,
                 bindings0, collected0>>

(* ---------------------------- result reporter -------------------------- *)

\* A variant of the reporter that lists every export as surviving.
ReportOut_KeepsAllExports(bd, c, ex) ==
  [published |-> TRUE,
   imports |-> withoutRemoved(bd, c.imports),
   exports |-> ex,
   reexports |-> withoutRemoved(bd, c.reexports),
   deadExports |-> Keys(SelectSeq(ex, LAMBDA e : isRemoved(bd, e.local)))]

\* Lines 373-384.
ReportOut(bd, c, ex) ==
  [published |-> TRUE,
   imports |-> withoutRemoved(bd, c.imports),
   exports |-> SelectSeq(ex, LAMBDA e : ~isRemoved(bd, e.local)),
   reexports |-> withoutRemoved(bd, c.reexports),
   deadExports |-> Keys(SelectSeq(ex, LAMBDA e : isRemoved(bd, e.local)))]

Report ==
  /\ pc = "report"
  /\ out' = ReportOut(body, collected, exports)
  /\ pc' = "returned"
  /\ UNCHANGED <<processor, graphAtLoop, mod, opts, run, body, rewritten, bindings, violations, collected,
                 exports, onlyExportsSet, importedAsSideEffect, aliveExports,
                 forDeleting, deleted, dereferenced, changed, passes, path, error,
                 metadata, body0, bindings0, collected0>>

\* Lines 391-408: source -> imported names, the imports first, then the re-exports.
RECURSIVE ImportedFrom(_, _)
ImportedFrom(items, source) ==
  IF items = <<>> THEN <<>>
  ELSE (IF Head(items).source = source /\ Head(items).imported # ""
        THEN <<Head(items).imported>> ELSE <<>>) \o ImportedFrom(Tail(items), source)

ImportsBySource(imports, reexports) ==
  LET all == imports \o [i \in 1..Len(reexports) |->
                           [imported |-> reexports[i].imported,
                            source |-> reexports[i].source,
                            local |-> reexports[i].local]]
  IN [src \in {all[i].source : i \in 1..Len(all)} |-> ImportedFrom(all, src)]

\* Lines 388-420: post(file).
Post ==
  /\ pc = "returned"
  /\ metadata' = [written |-> TRUE,
                  deadExports |-> out.deadExports,
                  exports |-> Keys(out.exports),
                  imports |-> ImportsBySource(out.imports, out.reexports)]
  /\ pc' = "posted"
  /\ UNCHANGED <<processor, graphAtLoop, mod, opts, run, body, rewritten, bindings, violations, collected,
                 exports, onlyExportsSet, importedAsSideEffect, aliveExports,
                 forDeleting, deleted, dereferenced, changed, passes, path, out, error,
                 body0, bindings0, collected0>>

(* ------------------------------ re-shaking ----------------------------- *)

\* The module the pass produced is parsed and handed to a new pass with the same
\* options: a new scope crawl, a new plugin state.
Reshake ==
  /\ pc = "posted"
  /\ run < MaxRuns
  /\ run' = run + 1
  /\ bindings' = Crawl(mod, body, rewritten)
  /\ violations' = CrawlViolations(body, rewritten)
  /\ pc' = "ready"
  /\ collected' = collectExportsAndImports(mod, <<>>, {})
  /\ exports' = <<>>
  /\ onlyExportsSet' = {}
  /\ importedAsSideEffect' = FALSE
  /\ aliveExports' = {}
  /\ forDeleting' = <<>>
  /\ deleted' = {}
  /\ dereferenced' = <<>>
  /\ changed' = FALSE
  /\ passes' = 0
  /\ path' = "none"
  /\ out' = NoOut
  /\ error' = NoError
  /\ metadata' = NoMetadata
  /\ graphAtLoop' = <<>>
  /\ UNCHANGED <<processor, mod, opts, body, rewritten, body0, bindings0, collected0>>

(* ----------------------------- the inputs ------------------------------ *)

Policies == {"unset", "error", "ignore", "reexport-all", "skip-shaking"}

\* The plainest module of the family; the families below vary it.
BaseShape ==
  [b |-> "expr", nRefs |-> 0, c |-> "none", d |-> "none", aReadsG |-> FALSE, xy |-> "none",
   hasDefault |-> FALSE, isEs |-> TRUE, pre |-> FALSE, side |-> "none",
   re |-> "none", imp |-> "bound"]

\* Modules that differ in their export surface: a plain or an aliasing export,
\* a shared initializer, a named or a wildcard re-export.
ExportShapes ==
  {[BaseShape EXCEPT !.b = b, !.xy = xy, !.re = re] :
     b \in {"expr", "alias"}, xy \in {"none", "dead"},
     re \in {"none", "named", "star", "starExport"}}

\* Modules that differ in their default export, their __esModule mark and their
\* __linariaPreval export.
InteropShapes ==
  {[BaseShape EXCEPT !.hasDefault = d, !.isEs = es, !.pre = pre] :
     d \in BOOLEAN, es \in BOOLEAN, pre \in BOOLEAN}

SurfaceShapes == ExportShapes \cup InteropShapes

\* Modules that differ in their reference graph.
GraphShapes ==
  {[BaseShape EXCEPT !.b = b, !.nRefs = n, !.c = c, !.aReadsG = ag, !.xy = xy] :
     b \in {"expr", "alias"}, n \in 0..MaxRefs, c \in {"none", "ident", "assign"},
     ag \in BOOLEAN, xy \in {"none", "dead", "read"}}

\* Modules that differ in their imports.
ImportShapes ==
  {[BaseShape EXCEPT !.c = c, !.aReadsG = ag, !.side = side, !.imp = imp] :
     c \in {"none", "ident"}, ag \in BOOLEAN, side \in {"none", "keep", "drop"},
     imp \in {"none", "bound", "unbound"}}

\* Modules in which two exports reach the same binding: c through an identifier
\* or the left side of an assignment, d through an identifier written before
\* or after c.
PairShapes ==
  {[BaseShape EXCEPT !.c = c, !.d = d, !.aReadsG = ag] :
     c \in {"ident", "assign"}, d \in {"before", "after"}, ag \in BOOLEAN}

\* The names a module exports or re-exports.
SurfaceNames(m) ==
  LET c == collectExportsAndImports(m, InitialBody(m), {})
  IN {c.exports[i].name : i \in 1..Len(c.exports)}
     \cup {c.reexports[i].exported : i \in 1..Len(c.reexports)}

\* The subsets of S with at most k elements.
RECURSIVE SubsetsUpTo(_, _)
SubsetsUpTo(S, k) ==
  IF k = 0 THEN {{}}
  ELSE LET smaller == SubsetsUpTo(S, k - 1)
       IN smaller \cup {r \cup {x} : r \in smaller, x \in S}

(* ------------- AtomicStyledProcessor (atomic/processors/styled.ts) ---- *)

\* this.className as the base processor's constructor may have set it.
ClassNames == {"c1x", "c2y"}

\* The rules atomize may hand back. A rule of className "" is one that carries
\* no class name (a keyframes rule); `!!rule.className` is false for it.
AtomicRules ==
  { [cssText |-> ".atm_a{color:red}", className |-> "atm_a"],
    [cssText |-> ".atm_b{margin:0}", className |-> "atm_b"],
    [cssText |-> "@keyframes spin{to{opacity:0}}", className |-> ""] }

\* What atomize(cssText, hasMeta) may return: up to MaxRules rules, in order.
AtomizeResults == UNION {[1..n -> AtomicRules] : n \in 0..MaxRules}

\* Boolean(s) for a string: the empty string is falsy.
Boolean(s) == s # ""

\* Array.prototype.join(' ') over strings.
RECURSIVE Join(_)
Join(parts) ==
  IF parts = <<>> THEN ""
  ELSE IF Len(parts) = 1 THEN parts[1]
  ELSE parts[1] \o " " \o Join(Tail(parts))

\* The message of the error the `classes` getter throws (the source writes
\* extractRules between backquotes).
NotExtracted == "Styles are not extracted yet. Please call extractRules first."

NoRules == {}
NoReturn ==
  [called |-> FALSE, thrown |-> FALSE, error |-> "", class |-> "",
   atomic |-> FALSE, afterExtract |-> FALSE]

\* A processor after construction: #classes is undefined (<<>>; <<s>> is the
\* string s). `extracted` records that extractRules has been called, `rules`
\* what extractRules returned last and `returned` how getProps ended last.
Constructed(c) ==
  [className |-> c, classes |-> <<>>, extracted |-> FALSE, rules |-> NoRules,
   returned |-> NoReturn]

\* The private getter `classes`: the value if #classes is truthy, else a throw.
classes(p) ==
  IF p.classes # <<>> /\ Boolean(p.classes[1])
  THEN [thrown |-> FALSE, value |-> p.classes[1]]
  ELSE [thrown |-> TRUE, value |-> ""]

\* The rules object extractRules builds: one entry per distinct cssText.
RulesOf(p, atomicRules) ==
  { [cssText |-> atomicRules[k].cssText, className |-> p.className, atom |-> TRUE]
      : k \in 1..Len(atomicRules) }

\* The names of the rules that carry one.
NamesOf(atomicRules) ==
  LET named == SelectSeq(atomicRules, LAMBDA rule : Boolean(rule.className))
  IN [k \in 1..Len(named) |-> named[k].className]

\* The value extractRules assigns to #classes.
ClassesOf(atomicRules) == Join(NamesOf(atomicRules))

\* StyledProcessor.getProps of the base class: class is this.className and
\* atomic is not set.
StyledProcessor_getProps(p) == [class |-> p.className, atomic |-> FALSE]

\* The plugin's variables, which the processor never touches.
shakerVars ==
  <<mod, opts, pc, run, body, rewritten, bindings, violations, collected,
    exports, onlyExportsSet, importedAsSideEffect, aliveExports,
    forDeleting, deleted, dereferenced, changed, passes, path, out,
    error, metadata, body0, bindings0, collected0, graphAtLoop>>

\* extractRules(valueCache, cssText, loc), atomize returning atomicRules.
extractRules ==
  /\ \E atomicRules \in AtomizeResults :
       processor' = [processor EXCEPT
                       !.rules = RulesOf(processor, atomicRules),
                       !.classes = << ClassesOf(atomicRules) >>,
                       !.extracted = TRUE]
  /\ UNCHANGED shakerVars

\* getProps(): the getter is read while the class string is put together, so
\* its throw leaves getProps without a result.
getProps ==
  /\ LET props == StyledProcessor_getProps(processor)
         got == classes(processor)
     IN processor' = [processor EXCEPT !.returned =
          IF got.thrown
          THEN [called |-> TRUE, thrown |-> TRUE, error |-> NotExtracted,
                class |-> "", atomic |-> FALSE,
                afterExtract |-> processor.extracted]
          ELSE [called |-> TRUE, thrown |-> FALSE, error |-> "",
                class |-> Join(SelectSeq(<<got.value, processor.className>>, Boolean)),
                atomic |-> TRUE,
                afterExtract |-> processor.extracted]]
  /\ UNCHANGED shakerVars

(* ------------------------------ inputs -------------------------------- *)

\* The markers a request may hold besides export names; zzz is exported nowhere.
Markers == {"zzz", "*", "side-effect", "default", "__linariaPreval"}

\* Requests: at most MaxRequest names out of `names`.
Requests(names) == SubsetsUpTo(names, MaxRequest)

DeadImportLists == {<<>>, << [what |-> "foo", from |-> "dep"] >>}

\* The plugin's own state when it is handed module m with options o.
Handed(m, o) ==
  /\ mod = m
  /\ opts = o
  /\ pc = "ready"
  /\ run = 1
  /\ body = InitialBody(m)
  /\ rewritten = {}
  /\ bindings = Crawl(m, InitialBody(m), {})
  /\ violations = {}
  /\ collected = collectExportsAndImports(m, <<>>, {})
  /\ exports = <<>>
  /\ onlyExportsSet = {}
  /\ importedAsSideEffect = FALSE
  /\ aliveExports = {}
  /\ forDeleting = <<>>
  /\ deleted = {}
  /\ dereferenced = <<>>
  /\ changed = FALSE
  /\ passes = 0
  /\ path = "none"
  /\ out = NoOut
  /\ error = NoError
  /\ metadata = NoMetadata
  /\ body0 = InitialBody(m)
  /\ bindings0 = Crawl(m, InitialBody(m), {})
  /\ collected0 = collectExportsAndImports(m, <<>>, {})
  /\ graphAtLoop = <<>>

\* The state in which the plugin is handed module m with options o; the
\* processor stands by, constructed and untouched.
Start(m, o) == Handed(m, o) /\ processor = Constructed("c1x")

\* Every export surface against every request and every policy.
InitSurface ==
  \E m \in SurfaceShapes, p \in Policies :
    \E r \in Requests(SurfaceNames(m) \cup Markers) :
      Start(m, [onlyExports |-> r, ifUnknownExport |-> p,
                keepSideEffects |-> "unset", deadImports |-> <<>>])

\* Every reference graph against the requests for its exports and a name it
\* does not export, shaken or not.
InitGraph ==
  \E m \in GraphShapes, p \in {"ignore", "skip-shaking"} :
    \E r \in Requests(SurfaceNames(m) \cup {"zzz"}) :
      Start(m, [onlyExports |-> r, ifUnknownExport |-> p,
                keepSideEffects |-> "unset", deadImports |-> <<>>])

\* Every import shape against keepSideEffects, the dead imports and the markers.
InitImports ==
  \E m \in ImportShapes, k \in {"unset", "true", "false"}, d \in DeadImportLists :
    \E r \in Requests(SurfaceNames(m) \cup {"side-effect", "*"}) :
      Start(m, [onlyExports |-> r, ifUnknownExport |-> "ignore",
                keepSideEffects |-> k, deadImports |-> d])

\* Exports that reach one binding, against the requests for the module's exports.
InitPairs ==
  \E m \in PairShapes :
    \E r \in Requests(SurfaceNames(m)) :
      Start(m, [onlyExports |-> r, ifUnknownExport |-> "ignore",
                keepSideEffects |-> "unset", deadImports |-> <<>>])

\* The reference graphs that make the loop sever, delete and rescan.
LoopShapes ==
  {m \in GraphShapes : m.b = "expr" /\ m.nRefs \in {0, MaxRefs} /\ m.xy # "read"}
  \cup PairShapes

InitLoop ==
  \E m \in LoopShapes :
    \E r \in Requests(SurfaceNames(m)) :
      Start(m, [onlyExports |-> r, ifUnknownExport |-> "ignore",
                keepSideEffects |-> "unset", deadImports |-> <<>>])

Init == InitSurface \/ InitGraph \/ InitImports \/ InitPairs

Next ==
  \/ Enter
  \/ Decide
  \/ MarkExports
  \/ MarkReexports
  \/ ApplyPolicy
  \/ ElimPass
  \/ Restore
  \/ Report
  \/ Post
  \/ Reshake

Spec == Init /\ [][Next]_vars

\* The handler runs to its end: the loop keeps taking the pass it is due and the
\* code after the loop runs once the loop is left. Followed over the reference
\* graphs whose worklists take the loop through more than one pass.
\* LoopTakesPass is the step ElimPass takes and LoopIsLeft the step Restore
\* takes, with what makes them possible spelled out.
LoopTakesPass ==
  pc = "loop" /\ LoopContinues /\ passes < MaxPasses /\ passes' = passes + 1

LoopIsLeft == pc = "loop" /\ ~LoopContinues /\ pc' = "report"

FairSpec ==
  InitLoop /\ [][Next]_vars /\ WF_passes(LoopTakesPass) /\ WF_pc(LoopIsLeft)

\* A processor constructed with any class name, next to an idle plugin.
StyledInit ==
  \E c \in ClassNames :
    /\ Handed(BaseShape, [onlyExports |-> {}, ifUnknownExport |-> "ignore",
                          keepSideEffects |-> "unset", deadImports |-> <<>>])
    /\ processor = Constructed(c)

StyledNext == extractRules \/ getProps

StyledSpec == StyledInit /\ [][StyledNext]_vars

(* ------------------------------ properties ---------------------------- *)

\* The handler has returned (post may have run).
Finished == pc \in {"returned", "posted"}

\* The unknown-export policy has been consulted: the handler is past line 284.
PolicyDecided == path \in {"error", "skip", "shaken"} \/ pc = "loop"

\* Every statement that was in the tree when the pass was entered is still
\* there, in the same order.
NothingDeleted == SelectSeq(body, LAMBDA s : s \in SeqToSet(body0)) = body0

\* The requested names that no export and no re-export of the module carries.
Unmatched(req) ==
  {n \in req : /\ ~Has(exports, n)
               /\ \A i \in 1..Len(collected.reexports) :
                    collected.reexports[i].exported # n}

\* The pass reported every import, export and re-export as surviving.
EverythingSurvives ==
  /\ out.published
  /\ out.imports = collected.imports
  /\ out.exports = exports
  /\ out.reexports = collected.reexports
  /\ out.deadExports = <<>>

BindingNames == {"bar", "g", "foo", "x", "y", "__linariaPreval", "_b"}

\* The bindings a statement of the tree reads.
ReadsOf(s) ==
  {name \in BindingNames :
     \E k \in 1..Len(SitesOf(mod, rewritten, name)) :
       LET site == SitesOf(mod, rewritten, name)[k]
       IN site[1] # "exp" /\ StmtOf(site) = s}
  \cup (IF s = <<"src", "c">> /\ mod.c = "assign" THEN {"g"} ELSE {})

\* The statements S reads from, transitively.
RECURSIVE NeededBy(_)
NeededBy(S) ==
  LET more == S \cup {DeclaredBy(name) : name \in UNION {ReadsOf(s) : s \in S}}
  IN IF more = S THEN S ELSE NeededBy(more)

\* The statements of the surviving exports and side-effect imports.
SurvivingRoots ==
  {StmtOf(out.exports[i].local) : i \in 1..Len(out.exports)}
  \cup {StmtOf(out.imports[i].local) :
          i \in {j \in 1..Len(out.imports) : sideEffectImport(out.imports[j])}}

\* C1 (conservativeness): after a shaking pass without configured dead
\* imports, every declaration that a surviving export or a surviving
\* side-effect import reads, directly or through other declarations, is still
\* in the module.
C1_Conservativeness ==
  (Finished /\ path = "shaken" /\ opts.deadImports = <<>>) =>
    \A s \in NeededBy(SurvivingRoots) :
      s \in SeqToSet(body0) => s \in SeqToSet(body)

\* C2 as stated (interop safety): whenever default is requested and the module
\* is not marked as an ES module, the pass deletes nothing and reports
\* everything as surviving, whatever else is requested or configured.
C2_InteropAsStated ==
  (Finished /\ "default" \in opts.onlyExports /\ ~collected.isEsModule) =>
    (NothingDeleted /\ EverythingSurvives)

\* C2 amended: whenever default is requested, the module exports default and it
\* is not marked as an ES module, the pass takes the interop abort: it deletes
\* nothing and reports every import, export and re-export as surviving, with no
\* dead export, whatever else is requested or configured.
C2_InteropSafety ==
  (pc # "ready" /\ pc # "entered" /\ "default" \in opts.onlyExports
     /\ Has(collected.exports, "default") /\ ~collected.isEsModule) =>
    (path = "interop" /\ NothingDeleted /\ EverythingSurvives)

C2_Witness ==
  /\ pc = "returned" /\ path = "interop"
  /\ opts.onlyExports = {"default", "zzz"}
  /\ opts.ifUnknownExport = "ignore"

\* C3 (fast-path totality): when the request is empty, or holds only
\* __linariaPreval while the module does not export it, the pass removes every
\* top-level statement and publishes no import, no export, no re-export and a
\* dead-export list equal to the module's export names.
C3_FastPathTotality ==
  (Finished /\ (opts.onlyExports = {}
                \/ (opts.onlyExports = {"__linariaPreval"}
                    /\ ~Has(collected.exports, "__linariaPreval")))) =>
    /\ body = <<>>
    /\ out = [published |-> TRUE, imports |-> <<>>, exports |-> <<>>,
              reexports |-> <<>>, deadExports |-> Keys(collected.exports)]

C3_Witness ==
  /\ pc = "returned" /\ path = "fast"
  /\ opts.onlyExports = {"__linariaPreval"}
  /\ Len(body0) > 2 /\ Len(out.deadExports) >= 2

\* C4: for a request without `*` the unknown-export policy is applied exactly
\* when some requested name matches no export and no re-export. Stated for the
\* policies whose application shows in how the handler ends (error,
\* skip-shaking).
C4_PolicyIffUnmatched ==
  (PolicyDecided /\ ifUnknownExport \in {"error", "skip-shaking"}) =>
    ((path \in {"error", "skip"}) <=> (Unmatched(onlyExportsSet) # {}))

\* C5: with the policy error and a requested name that matches no export and
\* no re-export, the pass throws before anything is deleted and the message
\* lists every name of the original request.
C5_ErrorOnUnmatched ==
  (PolicyDecided /\ ifUnknownExport = "error" /\ Unmatched(onlyExportsSet) # {}) =>
    (error.thrown /\ NothingDeleted /\ error.names = opts.onlyExports)

\* C6: with the policy unset or skip-shaking, a request without `*` that holds
\* a name matching no export and no re-export deletes nothing and reports
\* everything as surviving.
C6_SkipOnUnmatched ==
  (Finished /\ PolicyDecided /\ opts.ifUnknownExport \in {"unset", "skip-shaking"}
     /\ Unmatched(onlyExportsSet) # {}) =>
    (NothingDeleted /\ EverythingSurvives)

\* The pass ended on the interop abort, the skip-shaking abort or the error.
Aborted == path \in {"interop", "skip", "error"}

\* C7 as stated: on the abort paths the tree and the reference graph are
\* exactly as they were before the pass.
C7_UntouchedAsStated == Aborted => (body = body0 /\ bindings = bindings0)

\* C7 amended: on the abort paths nothing is removed: every statement and every
\* reference edge that was there before the pass is still there, in order. What
\* the pass adds before it aborts stays: for each export name with more than one
\* `exports.name` site the uid declaration at the top and the assignment at the
\* bottom, the uid's binding, and the edge of the left identifier of an
\* assignment-expression export.
C7_AbortRemovesNothing ==
  Aborted =>
    /\ NothingDeleted
    /\ \A s \in SeqToSet(body) \ SeqToSet(body0) :
         /\ s[1] \in {"uid", "tail"}
         /\ s[2] \in DOMAIN collected.exportRefs
         /\ Len(collected.exportRefs[s[2]]) > 1
    /\ \A b \in DOMAIN bindings0 :
         /\ b \in DOMAIN bindings
         /\ SelectSeq(bindings[b], LAMBDA site : Contains(bindings0[b], site))
              = bindings0[b]
         /\ \A k \in 1..Len(bindings[b]) :
              Contains(bindings0[b], bindings[b][k]) \/ bindings[b][k][1] = "left"
    /\ \A b \in DOMAIN bindings \ DOMAIN bindings0 :
         \E n \in rewritten : b = Uid(n)

C7_Witness ==
  /\ pc = "returned" /\ path = "skip"
  /\ body # body0 /\ bindings # bindings0
  /\ mod.nRefs = 1 /\ mod.c = "assign"

\* C8 (idempotence): a second pass with the same request and options over the
\* module the first pass produced changes nothing in the tree.
C8_Idempotence == (run >= 2 /\ Finished) => body = body0

\* C9 (shared initializer): export names that map to one node share one fate:
\* once the pass has reported, all of them survive or all of them are dead; and
\* when one of them is requested the node is alive, is not in the worklist and
\* none of them is reported dead, whichever of the names comes first.
C9_SharedInitializer ==
  \A i, j \in 1..Len(exports) :
    (i # j /\ exports[i].local = exports[j].local) =>
      /\ out.published =>
           /\ Has(out.exports, exports[i].name) <=> Has(out.exports, exports[j].name)
           /\ Contains(out.deadExports, exports[i].name)
                <=> Contains(out.deadExports, exports[j].name)
           /\ Has(out.exports, exports[i].name)
                <=> ~Contains(out.deadExports, exports[i].name)
      /\ (exports[i].name \in opts.onlyExports /\ out.published) =>
           /\ ~Contains(out.deadExports, exports[i].name)
           /\ ~Contains(out.deadExports, exports[j].name)
      /\ (exports[i].name \in onlyExportsSet /\ path \in {"shaking", "shaken"}
            /\ pc \in {"aliveRe", "policy", "loop", "report", "returned", "posted"}) =>
           /\ exports[i].local \in aliveExports
           /\ ~Contains(forDeleting, exports[i].local)

C9_Witness ==
  /\ pc = "returned" /\ path = "shaken" /\ passes > 0
  /\ opts.onlyExports = {"y"}
  /\ Has(out.exports, "x") /\ Has(out.exports, "y")

\* C10: whenever the request holds `*` and the pass does not take the interop
\* abort, nothing is deleted: no worklist is built, every export, re-export and
\* import (side-effect and configured dead imports too) is reported as
\* surviving and no export is dead, whatever keepSideEffects and deadImports are.
C10_WildcardKeepsAll ==
  (Finished /\ "*" \in opts.onlyExports /\ path # "interop") =>
    /\ path = "wildcard"
    /\ NothingDeleted
    /\ forDeleting = <<>> /\ deleted = {}
    /\ EverythingSurvives

C10_Witness ==
  /\ pc = "returned" /\ path = "wildcard"
  /\ mod.side = "drop" /\ opts.keepSideEffects = "false"
  /\ opts.deadImports # <<>> /\ mod.imp = "bound" /\ mod.c = "ident"
  /\ opts.onlyExports = {"*", "a"}

\* The pass schedules this side-effect import for deletion.
SideEffectDropped(i) ==
  /\ ~keepSideEffects
  /\ "side-effect" \notin opts.onlyExports
  /\ ~shouldKeepSideEffect(i.source)

\* C11: after a shaking pass a side-effect-only import is in the worklist, is
\* marked deleted and is missing from the surviving imports exactly when
\* keepSideEffects is false, `side-effect` is not requested and the keep
\* predicate rejects its source; with keepSideEffects or `side-effect`
\* requested every side-effect-only import survives.
C11_SideEffectImports ==
  (Finished /\ path = "shaken") =>
    \A k \in 1..Len(collected.imports) :
      LET i == collected.imports[k] IN
      sideEffectImport(i) =>
        /\ Contains(forDeleting, i.local) <=> SideEffectDropped(i)
        /\ i.local \in deleted <=> SideEffectDropped(i)
        /\ isRemoved(body, i.local) <=> SideEffectDropped(i)
        /\ Contains(out.imports, i) <=> ~SideEffectDropped(i)

C11_Witness ==
  /\ pc = "returned" /\ path = "shaken" /\ run = 1
  /\ mod.side = "drop" /\ opts.keepSideEffects = "false"
  /\ "side-effect" \notin opts.onlyExports
  /\ <<"side", "", 0>> \in deleted
  /\ Len(out.imports) = 1 /\ ~sideEffectImport(out.imports[1])

\* C12: under reexport-all with a requested name that matches no export and no
\* re-export, every wildcard export and every wildcard re-export is alive, is
\* not in the worklist and is among the surviving exports / re-exports.
C12_ReexportAllKeepsWildcards ==
  (PolicyDecided /\ ifUnknownExport = "reexport-all" /\ Unmatched(onlyExportsSet) # {}) =>
    /\ \A i \in 1..Len(exports) :
         exports[i].name = "*" =>
           /\ exports[i].local \in aliveExports
           /\ ~Contains(forDeleting, exports[i].local)
           /\ out.published => Has(out.exports, "*")
    /\ \A i \in 1..Len(collected.reexports) :
         collected.reexports[i].exported = "*" =>
           /\ collected.reexports[i].local \in aliveExports
           /\ ~Contains(forDeleting, collected.reexports[i].local)
           /\ out.published => Contains(out.reexports, collected.reexports[i])

\* C13 (reporter partition): once a pass has reported, on every path, the
\* surviving export names and the dead export names are disjoint and together
\* are the export names collected from the module; after a shaking pass a name
\* is dead exactly when its node is removed, and no surviving import or
\* re-export record points at a removed node.
C13_ReporterPartition ==
  out.published =>
    /\ SeqToSet(Keys(out.exports)) \cap SeqToSet(out.deadExports) = {}
    /\ SeqToSet(Keys(out.exports)) \cup SeqToSet(out.deadExports)
         = SeqToSet(Keys(collected.exports))
    /\ path \in {"shaken", "wildcard"} =>
         /\ \A i \in 1..Len(exports) :
              Contains(out.deadExports, exports[i].name)
                <=> isRemoved(body, exports[i].local)
         /\ \A i \in 1..Len(out.imports) : ~isRemoved(body, out.imports[i].local)
         /\ \A i \in 1..Len(out.reexports) : ~isRemoved(body, out.reexports[i].local)

C13_Witness ==
  /\ pc = "returned" /\ path = "shaken"
  /\ Len(out.exports) > 0 /\ Len(out.deadExports) > 1
  /\ Len(out.reexports) < Len(collected.reexports)

\* How often e occurs in s.
Occurrences(s, e) == Cardinality({i \in 1..Len(s) : s[i] = e})

C15_Termination ==
  /\ [](pc = "loop" => passes <= Len(forDeleting) + 1)
  /\ [][(pc = "loop" /\ passes' = passes + 1 /\ changed')
          => (deleted \subseteq deleted' /\ Cardinality(deleted') > Cardinality(deleted))]_vars
  /\ (pc = "loop" ~> pc = "report")

C15_Witness ==
  /\ pc = "report" /\ passes >= 2 /\ ~changed
  /\ deleted # {} /\ Cardinality(deleted) < Len(forDeleting)

\* C17: no node is in the deletion worklist twice.
C17_WorklistHasNoDuplicates ==
  \A i, j \in 1..Len(forDeleting) : i # j => forDeleting[i] # forDeleting[j]

\* C18 (monotonic alive set): from export matching through re-export matching
\* and the reexport-all policy to the worklist no step takes a node out of the
\* alive set, and matching one export entry never shrinks the set it is given.
C18_AliveSetOnlyGrows ==
  /\ [][(pc \in {"alive", "aliveRe", "policy"}) => (aliveExports \subseteq aliveExports')]_vars
  /\ [](pc = "alive" =>
          \A i \in 1..Len(exports) :
            \A alive \in SUBSET SeqToSet(Values(exports)) :
              alive \subseteq
                AliveAfterEntry(mod, onlyExportsSet,
                                [k \in 1..Len(collected.imports) |->
                                   collected.imports[k].imported],
                                alive, exports[i]))

C18_Witness ==
  /\ pc = "loop" /\ passes = 0
  /\ ifUnknownExport = "reexport-all"
  /\ <<"loc", "a", 0>> \in aliveExports
  /\ <<"re", "*", 0>> \in aliveExports
  /\ Cardinality(aliveExports) >= 3

\* C16 (fixed point at exit): when the loop is left, every candidate that is not
\* marked deleted has a binding with a reference site outside the statement its
\* action removes, in the reference graph as the probes left it.
C16_FixedPointAtExit ==
  (pc = "loop" /\ ~LoopContinues) =>
    \A n \in SeqToSet(forDeleting) \ deleted :
      /\ getBindingForExport(mod, bindings, n) # NoBinding
      /\ Len(outerReferences(mod, [body |-> body, bindings |-> bindings], n)) > 0

\* The orders in which the candidates of a worklist can stand.
Reorderings(work) ==
  {[i \in 1..Len(work) |-> work[p[i]]] : p \in Permutations(1..Len(work))}

\* C19 (order independence): for the reference graph and the candidates the loop
\* is entered with, every order of the worklist has the loop delete the same
\* nodes and leave the same statements, so the reporter lists the same dead
\* exports and surviving imports.
C19_OrderIndependence ==
  (pc = "loop" /\ passes = 0) =>
    \A work \in Reorderings(forDeleting) :
      LET asBuilt == Eliminate(mod, body, bindings, forDeleting)
          other == Eliminate(mod, body, bindings, work)
      IN /\ other.deleted = asBuilt.deleted
         /\ other.body = asBuilt.body
         /\ ReportOut(other.body, collected, exports)
              = ReportOut(asBuilt.body, collected, exports)

\* C20: getProps fails with the not-extracted error exactly when extractRules
\* has not been called on the processor before it; after any call of
\* extractRules, one yielding no class name included, getProps succeeds and
\* sets atomic to true.
C20_GetPropsCallOrdering ==
  processor.returned.called =>
    /\ (processor.returned.thrown <=> ~processor.returned.afterExtract)
    /\ (processor.returned.thrown => processor.returned.error = NotExtracted)
    /\ (processor.returned.afterExtract => processor.returned.atomic)

====
